---- MODULE Spec2Model ----
(***************************************************************************)
(* Model of the two polled input drivers of zaburoh/zmk-config:            *)
(*   - the PMW3360 optical sensor driver (SPI register protocol)           *)
(*       src/modules/keyball39_pmw3360/drivers/input/pmw3360.c             *)
(*   - the analog joystick driver (two ADC channels)                       *)
(*       src/unnamed/part_001, second translation unit (lines 202-441)     *)
(* One device instance is modelled; its devicetree "compatible" selects    *)
(* the driver.  A handler (the init function, the delayable work handler)  *)
(* runs to completion on the single work queue thread, so each handler is  *)
(* one action.  Everything the handler asks of the environment (transport  *)
(* results, register contents, ADC samples) is an input of the action; the *)
(* calls it makes to the bus, the timing primitive, the scheduler and the  *)
(* input subsystem are recorded in the order it makes them.                *)
(***************************************************************************)
EXTENDS Integers, Sequences, FiniteSets, TLC

VARIABLES
    compat,     \* DT_DRV_COMPAT of the instance
    cfg,        \* dev->config (const after construction)
    data,       \* dev->data fields other than the work item
    work,       \* data->work: the delayable work item
    pc,         \* "boot" before the init function ran, "done" after
    init_ret,   \* return value of the init function (meaningful when pc = "done")
    handler,    \* the handler that ran last: "none", "init", "tick"
    env,        \* what the environment answered to the last handler
    loc,        \* the last handler's local variables when it returned
    bus_log,    \* bus / timing calls of the last handler, in call order
    hold,       \* TRUE while the SPI chip select is held (SPI_HOLD_ON_CS)
    sched,      \* delays (ms) of the k_work_schedule calls of the last handler
    events,     \* input reports of the last handler, in call order
    memo        \* history: one earlier successful joystick tick kept for comparison

vars == <<compat, cfg, data, work, pc, init_ret, handler, env, loc,
          bus_log, hold, sched, events, memo>>

-----------------------------------------------------------------------------
(* errno values used by the drivers *)
EIO == 5
ENODEV == 19

(* integer widths *)
UINT8_MAX == 255
UINT16_MAX == 65535
INT16_MIN == -32768
INT16_MAX == 32767

(* register map, enum pmw3360_reg *)
PMW3360_PRODUCT_ID == 0
PMW3360_REVISION_ID == 1
PMW3360_MOTION == 2
PMW3360_DELTA_X_L == 3
PMW3360_DELTA_X_H == 4
PMW3360_DELTA_Y_L == 5
PMW3360_DELTA_Y_H == 6
PMW3360_CONFIG1 == 15
PMW3360_CONFIG2 == 16
PMW3360_POWER_UP_RESET == 58

Registers == {PMW3360_PRODUCT_ID, PMW3360_REVISION_ID, PMW3360_MOTION,
              PMW3360_DELTA_X_L, PMW3360_DELTA_X_H,
              PMW3360_DELTA_Y_L, PMW3360_DELTA_Y_H}

-----------------------------------------------------------------------------
(* C integer arithmetic *)

RECURSIVE BitAnd(_, _)
BitAnd(a, b) ==
    IF a = 0 \/ b = 0 THEN 0
    ELSE (IF a % 2 = 1 /\ b % 2 = 1 THEN 1 ELSE 0) + 2 * BitAnd(a \div 2, b \div 2)

RECURSIVE BitOr(_, _)
BitOr(a, b) ==
    IF a = 0 THEN b
    ELSE IF b = 0 THEN a
    ELSE (IF a % 2 = 1 \/ b % 2 = 1 THEN 1 ELSE 0) + 2 * BitOr(a \div 2, b \div 2)

ShiftLeft8(a) == a * 256

(* (uint8_t)v and (int16_t)v for an int v: reduction modulo 2^8 / 2^16 *)
ToUint8(v) == v % (UINT8_MAX + 1)

ToInt16(v) ==
    LET m == v % (UINT16_MAX + 1)
    IN  IF m > INT16_MAX THEN m - (UINT16_MAX + 1) ELSE m

(* division rounding toward minus infinity, as an arithmetic shift would *)
CDiv_floor(a, b) == a \div b

(* C division truncates toward zero *)
CDiv(a, b) ==
    IF a >= 0 THEN a \div b ELSE -((-a) \div b)

-----------------------------------------------------------------------------
(* The SPI bus as the driver sees it.  bus = [regs, fails, err]:           *)
(*   regs   the sensor's register file during the handler                  *)
(*   fails  the transport calls that fail, as [txn, op] with txn the       *)
(*          ordinal of the register transaction within the handler         *)
(*   err    the (negative) errno a failing transport call returns          *)
(* st = [txn, log, hold] is threaded through the calls of one handler.     *)

LogEntry(op, buf, n) == [op |-> op, buf |-> buf, n |-> n]

BusStart(h) == [txn |-> 0, log |-> <<>>, hold |-> h]

Fails(bus, st, op) == [txn |-> st.txn, op |-> op] \in bus.fails

pmw3360_spi_write_hold(bus, st, buf) ==
    LET err == IF Fails(bus, st, "write") THEN bus.err ELSE 0
    IN  [st  |-> [st EXCEPT !.log = Append(@, LogEntry("spi_write", buf, err)),
                            !.hold = TRUE],
         err |-> err]

pmw3360_spi_read_hold(bus, st, reg) ==
    LET err == IF Fails(bus, st, "read") THEN bus.err ELSE 0
    IN  [st  |-> [st EXCEPT !.log = Append(@, LogEntry("spi_read", <<>>, err)),
                            !.hold = TRUE],
         err |-> err,
         buf |-> bus.regs[reg]]

(* the release left out *)
pmw3360_spi_release_hold_skip(st) == st

(* void pmw3360_spi_release_hold(cfg): spi_release, its result discarded *)
pmw3360_spi_release_hold(st) ==
    [st EXCEPT !.log = Append(@, LogEntry("spi_release", <<>>, 0)),
               !.hold = FALSE]

k_busy_wait(st, us) ==
    [st EXCEPT !.log = Append(@, LogEntry("k_busy_wait", <<>>, us))]

k_msleep(st, ms) ==
    [st EXCEPT !.log = Append(@, LogEntry("k_msleep", <<>>, ms))]

(* pmw3360_reg_read returning at once, with the hold on, when the read fails *)
pmw3360_reg_read_keep_hold(bus, st0, reg, val0) ==
    LET st   == [st0 EXCEPT !.txn = @ + 1]
        addr == BitAnd(reg, 127)
        w    == pmw3360_spi_write_hold(bus, st, <<addr>>)
    IN  IF w.err # 0
        THEN [st |-> pmw3360_spi_release_hold(w.st), err |-> w.err, val |-> val0]
        ELSE LET s1 == k_busy_wait(w.st, 160)
                 r  == pmw3360_spi_read_hold(bus, s1, addr)
                 s2 == pmw3360_spi_release_hold(r.st)
                 s3 == k_busy_wait(s2, 19)
             IN  IF r.err # 0
                 THEN [st |-> r.st, err |-> r.err, val |-> val0]
                 ELSE [st |-> s3, err |-> 0, val |-> r.buf]

(* int pmw3360_reg_read(cfg, reg, *val): val0 is *val on entry *)
pmw3360_reg_read(bus, st0, reg, val0) ==
    LET st   == [st0 EXCEPT !.txn = @ + 1]
        addr == BitAnd(reg, 127)
        w    == pmw3360_spi_write_hold(bus, st, <<addr>>)
    IN  IF w.err # 0
        THEN [st |-> pmw3360_spi_release_hold(w.st), err |-> w.err, val |-> val0]
        ELSE LET s1 == k_busy_wait(w.st, 160)
                 r  == pmw3360_spi_read_hold(bus, s1, addr)
                 s2 == pmw3360_spi_release_hold(r.st)
                 s3 == k_busy_wait(s2, 19)
             IN  [st  |-> s3,
                  err |-> r.err,
                  val |-> IF r.err = 0 THEN r.buf ELSE val0]

(* the write frame without the write flag in the address byte *)
pmw3360_write_frame_plain(reg, val) == <<reg, val>>

(* uint8_t tx[2] = { (uint8_t)(reg | 0x80), val } *)
pmw3360_write_frame(reg, val) == <<ToUint8(BitOr(reg, 128)), val>>

(* pmw3360_reg_write returning 0 instead of the transport result *)
pmw3360_reg_write_swallow(bus, st0, reg, val) ==
    LET st == [st0 EXCEPT !.txn = @ + 1]
        tx == pmw3360_write_frame(reg, val)
        w  == pmw3360_spi_write_hold(bus, st, tx)
        s1 == k_busy_wait(w.st, 35)
        s2 == pmw3360_spi_release_hold(s1)
        s3 == k_busy_wait(s2, 145)
    IN  [st |-> s3, err |-> 0]

(* int pmw3360_reg_write(cfg, reg, val) *)
pmw3360_reg_write(bus, st0, reg, val) ==
    LET st == [st0 EXCEPT !.txn = @ + 1]
        tx == pmw3360_write_frame(reg, val)
        w  == pmw3360_spi_write_hold(bus, st, tx)
        s1 == k_busy_wait(w.st, 35)
        s2 == pmw3360_spi_release_hold(s1)
        s3 == k_busy_wait(s2, 145)
    IN  [st |-> s3, err |-> w.err]

(* cpi_reg_val without the upper clamp *)
cpi_reg_val_no_upper(cpi0) ==
    LET cpi == IF cpi0 < 100 THEN 100 ELSE cpi0
    IN  ToUint8((cpi \div 100) - 1)

(* the value pmw3360_set_cpi writes to CONFIG1 *)
cpi_reg_val(cpi0) ==
    LET cpi == IF cpi0 < 100 THEN 100
               ELSE IF cpi0 > 12000 THEN 12000
               ELSE cpi0
    IN  ToUint8((cpi \div 100) - 1)

pmw3360_set_cpi(bus, st, c) ==
    pmw3360_reg_write(bus, st, PMW3360_CONFIG1, cpi_reg_val(c.cpi))

(* the validity test taken as "status byte non-zero" *)
motion_valid_nonzero(motion) == motion # 0

(* the validity test of pmw3360_read_motion: (motion & 0x80) != 0 *)
motion_valid(motion) == BitAnd(motion, 128) # 0

(* the decoding without the conversion to int16_t *)
delta16_unsigned(h, l) == BitOr(ShiftLeft8(h), l)

(* the decoding of one axis in pmw3360_read_motion *)
delta16(h, l) == ToInt16(BitOr(ShiftLeft8(h), l))

(* pmw3360_read_motion making all four delta reads before it tests their   *)
(* results (| for ||)                                                      *)
pmw3360_read_motion_eager(bus, st, dx0, dy0) ==
    LET m == pmw3360_reg_read(bus, st, PMW3360_MOTION, 0)
        no(s) == [st |-> s, ret |-> FALSE, dx |-> dx0, dy |-> dy0]
    IN  IF m.err # 0 THEN no(m.st)
        ELSE IF ~motion_valid(m.val) THEN no(m.st)
        ELSE LET xl == pmw3360_reg_read(bus, m.st, PMW3360_DELTA_X_L, 0)
                 xh == pmw3360_reg_read(bus, xl.st, PMW3360_DELTA_X_H, 0)
                 yl == pmw3360_reg_read(bus, xh.st, PMW3360_DELTA_Y_L, 0)
                 yh == pmw3360_reg_read(bus, yl.st, PMW3360_DELTA_Y_H, 0)
             IN  IF xl.err # 0 \/ xh.err # 0 \/ yl.err # 0 \/ yh.err # 0
                 THEN no(yh.st)
                 ELSE [st  |-> yh.st,
                       ret |-> TRUE,
                       dx  |-> delta16(xh.val, xl.val),
                       dy  |-> delta16(yh.val, yl.val)]

(* bool pmw3360_read_motion(cfg, *dx, *dy): dx0, dy0 are *dx, *dy on entry *)
pmw3360_read_motion(bus, st, dx0, dy0) ==
    LET m == pmw3360_reg_read(bus, st, PMW3360_MOTION, 0)
        no(s) == [st |-> s, ret |-> FALSE, dx |-> dx0, dy |-> dy0]
    IN  IF m.err # 0 THEN no(m.st)
        ELSE IF ~motion_valid(m.val) THEN no(m.st)
        ELSE LET xl == pmw3360_reg_read(bus, m.st, PMW3360_DELTA_X_L, 0)
             IN  IF xl.err # 0 THEN no(xl.st)
                 ELSE LET xh == pmw3360_reg_read(bus, xl.st, PMW3360_DELTA_X_H, 0)
                      IN  IF xh.err # 0 THEN no(xh.st)
                          ELSE LET yl == pmw3360_reg_read(bus, xh.st, PMW3360_DELTA_Y_L, 0)
                               IN  IF yl.err # 0 THEN no(yl.st)
                                   ELSE LET yh == pmw3360_reg_read(bus, yl.st, PMW3360_DELTA_Y_H, 0)
                                        IN  IF yh.err # 0 THEN no(yh.st)
                                            ELSE [st  |-> yh.st,
                                                  ret |-> TRUE,
                                                  dx  |-> delta16(xh.val, xl.val),
                                                  dy  |-> delta16(yh.val, yl.val)]

-----------------------------------------------------------------------------
(* The scheduler and the input subsystem *)

(* k_work_schedule(&data->work, K_MSEC(ms)): a work item that is already   *)
(* scheduled is left alone, otherwise it becomes pending with that delay.  *)
k_work_schedule(w, ms) ==
    IF w.pending THEN w ELSE [pending |-> TRUE, delay |-> ms]

(* the k_work_schedule calls of one handler, in order *)
RECURSIVE ScheduleAll(_, _)
ScheduleAll(w, delays) ==
    IF delays = <<>> THEN w
    ELSE ScheduleAll(k_work_schedule(w, Head(delays)), Tail(delays))

Report(code, value, sync) == [code |-> code, value |-> value, sync |-> sync]

-----------------------------------------------------------------------------
(* Inputs of the PMW3360 handlers *)

PmwIntervals == {0, 4}
PmwCpis == {50, 500, 20000}
PmwConfigs == [polling_interval_ms : PmwIntervals, cpi : PmwCpis]

(* errno values a failing transport call may return *)
SpiErrors == {-EIO, -ENODEV}

IdProducts == {66, 1, 67}
IdRevisions == {1, 66, 0}
MotionBytes == {0, 127, 128}
LowBytes == {0, 16, 240}
HighBytes == {0, 255}

RegFile(pid, rev, mot, xl, xh, yl, yh) ==
    (PMW3360_PRODUCT_ID :> pid) @@ (PMW3360_REVISION_ID :> rev) @@
    (PMW3360_MOTION :> mot) @@
    (PMW3360_DELTA_X_L :> xl) @@ (PMW3360_DELTA_X_H :> xh) @@
    (PMW3360_DELTA_Y_L :> yl) @@ (PMW3360_DELTA_Y_H :> yh)

Call(txn, op) == [txn |-> txn, op |-> op]

(* pmw3360_init makes five register transactions: reset write, product-id  *)
(* read, revision-id read, CONFIG2 write, CONFIG1 write.  Every check but  *)
(* the last two returns at the first failure, so one failing call per run  *)
(* covers them; the two configuration writes may fail together.            *)
PmwInitFails ==
    {{}} \cup
    {{Call(0, "ready")}, {Call(1, "write")},
     {Call(2, "write")}, {Call(2, "read")},
     {Call(3, "write")}, {Call(3, "read")},
     {Call(4, "write")}, {Call(5, "write")},
     {Call(4, "write"), Call(5, "write")}}

PmwInitEnvs ==
    {[regs |-> RegFile(pid, rev, 0, 0, 0, 0, 0), fails |-> f, err |-> e] :
        pid \in IdProducts, rev \in IdRevisions, f \in PmwInitFails, e \in SpiErrors}

(* The tick makes at most five register reads and stops at the first       *)
(* failing one, so one failing call per run covers the failure paths.  The *)
(* register contents vary freely when no call fails; a run with a failing  *)
(* call never uses the delta registers, so those runs keep one non-zero    *)
(* register file and vary only the validity bit.                           *)
PmwTickFails ==
    {{Call(k, op)} : k \in 1..5, op \in {"write", "read"}}

PmwTickEnvs ==
    {[regs |-> RegFile(66, 1, mot, xl, xh, yl, yh), fails |-> {}, err |-> -EIO] :
        mot \in MotionBytes, xl \in LowBytes, xh \in HighBytes,
        yl \in LowBytes, yh \in HighBytes}
    \cup
    {[regs |-> RegFile(66, 1, mot, 16, 0, 240, 255), fails |-> f, err |-> -EIO] :
        mot \in {0, 128}, f \in PmwTickFails}

-----------------------------------------------------------------------------
(* PMW3360 handlers *)

(* the identity test with && for ||: rejects only when both bytes differ *)
pmw3360_id_ok_and(pid, rev) == ~(pid # 66 /\ rev # 1)

(* the identity test of pmw3360_init: !(pid != 0x42 || rev != 0x01) *)
pmw3360_id_ok(pid, rev) == ~(pid # 66 \/ rev # 1)

(* the configuration writes with their results propagated *)
pmw3360_init_config_strict(c, e, st) ==
    LET c2 == pmw3360_reg_write(e, st, PMW3360_CONFIG2, 0)
        c1 == pmw3360_set_cpi(e, c2.st, c)
    IN  [st |-> c1.st, ret |-> IF c2.err # 0 THEN c2.err ELSE c1.err]

(* the configuration writes of pmw3360_init, results cast to void: the     *)
(* outcome handed back to pmw3360_init is always 0                         *)
pmw3360_init_config(c, e, st) ==
    LET c2 == pmw3360_reg_write(e, st, PMW3360_CONFIG2, 0)
        c1 == pmw3360_set_cpi(e, c2.st, c)
    IN  [st |-> c1.st, ret |-> 0]

(* the k_work_schedule call of pmw3360_init *)
pmw3360_init_sched(c) == <<c.polling_interval_ms>>

(* the run of pmw3360_init against bus e: its return value, the bus state  *)
(* it leaves and the k_work_schedule calls it made                         *)
pmw3360_init_run(c, e, h) ==
    LET st0 == BusStart(h)
        fail(r, s) == [ret |-> r, st |-> s, ready |-> FALSE, sched |-> <<>>]
    IN  IF Call(0, "ready") \in e.fails THEN fail(-ENODEV, st0)
        ELSE LET rst == pmw3360_reg_write(e, st0, PMW3360_POWER_UP_RESET, 90)
             IN  IF rst.err # 0 THEN fail(-EIO, rst.st)
                 ELSE LET s1  == k_msleep(rst.st, 50)
                          pid == pmw3360_reg_read(e, s1, PMW3360_PRODUCT_ID, 0)
                      IN  IF pid.err # 0 THEN fail(-EIO, pid.st)
                          ELSE LET rev == pmw3360_reg_read(e, pid.st, PMW3360_REVISION_ID, 0)
                               IN  IF rev.err # 0 THEN fail(-EIO, rev.st)
                                   ELSE IF ~pmw3360_id_ok(pid.val, rev.val)
                                        THEN fail(-ENODEV, rev.st)
                                        ELSE LET k == pmw3360_init_config(c, e, rev.st)
                                             IN  IF k.ret # 0 THEN fail(k.ret, k.st)
                                                 ELSE [ret |-> 0, st |-> k.st, ready |-> TRUE,
                                                       sched |-> pmw3360_init_sched(c)]

pmw3360_init_with(e) ==
    /\ compat = "zmk_pmw3360"
    /\ pc = "boot"
    /\ LET r == pmw3360_init_run(cfg, e, hold)
       IN  /\ pc' = "done"
           /\ init_ret' = r.ret
           /\ handler' = "init"
           /\ env' = e
           /\ loc' = [ret |-> r.ret]
           /\ bus_log' = r.st.log
           /\ hold' = r.st.hold
           /\ events' = <<>>
           /\ data' = [data EXCEPT !.dev = r.ready]
           /\ sched' = r.sched
           /\ work' = ScheduleAll(work, r.sched)
    /\ UNCHANGED <<compat, cfg, memo>>

pmw3360_init == \E e \in PmwInitEnvs : pmw3360_init_with(e)

(* the reports pmw3360_work_handler makes for the result m of read_motion *)
pmw3360_reports(m) ==
    IF m.ret /\ (m.dx # 0 \/ m.dy # 0)
    THEN <<Report("INPUT_REL_X", m.dx, FALSE), Report("INPUT_REL_Y", m.dy, TRUE)>>
    ELSE <<>>

(* the handler rescheduling only after a successful sample *)
pmw3360_work_sched_stall(c, m) ==
    IF m.ret THEN <<c.polling_interval_ms>> ELSE <<>>

(* the k_work_schedule call that ends pmw3360_work_handler *)
pmw3360_work_sched(c, m) == <<c.polling_interval_ms>>

pmw3360_work_handler ==
    /\ compat = "zmk_pmw3360"
    /\ pc = "done"
    /\ work.pending
    /\ \E e \in PmwTickEnvs :
         LET m == pmw3360_read_motion(e, BusStart(hold), 0, 0)
         IN  /\ handler' = "tick"
             /\ env' = e
             /\ loc' = [ret |-> m.ret, dx |-> m.dx, dy |-> m.dy]
             /\ bus_log' = m.st.log
             /\ hold' = m.st.hold
             /\ events' = pmw3360_reports(m)
             /\ sched' = pmw3360_work_sched(cfg, m)
             /\ work' = ScheduleAll([work EXCEPT !.pending = FALSE],
                                    pmw3360_work_sched(cfg, m))
    /\ UNCHANGED <<compat, cfg, data, pc, init_ret, memo>>

-----------------------------------------------------------------------------
(* The analog joystick driver (src/unnamed/part_001, lines 202-441).       *)
(* adc = [samples, fails, err]: samples[k] is the conversion result of the *)
(* k-th adc_read of the handler, fails the failing calls and err the       *)
(* (negative) errno of a failing call.  st = [txn, log, x_cal, y_cal] is   *)
(* threaded through the reads of one handler; x_cal / y_cal are the        *)
(* seq.calibrate flags of the two axes.                                    *)

AdcStart(d) == [txn |-> 0, log |-> <<>>, x_cal |-> d.x_calibrate, y_cal |-> d.y_calibrate]

poll_interval_or_default(interval_ms) ==
    IF interval_ms > 0 THEN interval_ms ELSE 10

(* int joystick_read_axis(adc, axis, *out): out0 is *out on entry *)
joystick_read_axis(adc, st0, axis, out0) ==
    LET st  == [st0 EXCEPT !.txn = @ + 1]
        err == IF Call(st.txn, "adc_read") \in adc.fails THEN adc.err ELSE 0
        s1  == [st EXCEPT !.log = Append(@, LogEntry("adc_read", <<axis>>, err))]
        s2  == IF axis = "x" THEN [s1 EXCEPT !.x_cal = FALSE]
                             ELSE [s1 EXCEPT !.y_cal = FALSE]
    IN  [st  |-> s2,
         err |-> err,
         out |-> IF err < 0 THEN out0 ELSE adc.samples[st.txn]]

k_sleep(st, ms) ==
    [st EXCEPT !.log = Append(@, LogEntry("k_sleep", <<>>, ms))]

(* the calibration loop storing the mean of the partial sums when a read   *)
(* fails                                                                   *)
RECURSIVE joystick_calibrate_loop_partial(_, _, _, _, _, _)
joystick_calibrate_loop_partial(adc, st, i, sum_x, sum_y, cen) ==
    IF i >= 8
    THEN [st |-> st, err |-> 0,
          center_x |-> CDiv(sum_x, 8), center_y |-> CDiv(sum_y, 8)]
    ELSE LET rx == joystick_read_axis(adc, st, "x", 0)
         IN  IF rx.err < 0
             THEN [st |-> rx.st, err |-> rx.err,
                   center_x |-> CDiv(sum_x, 8), center_y |-> CDiv(sum_y, 8)]
             ELSE LET ry == joystick_read_axis(adc, rx.st, "y", 0)
                  IN  IF ry.err < 0
                      THEN [st |-> ry.st, err |-> ry.err,
                            center_x |-> CDiv(sum_x, 8), center_y |-> CDiv(sum_y, 8)]
                      ELSE joystick_calibrate_loop_partial(adc, k_sleep(ry.st, 2), i + 1,
                                                           sum_x + rx.out, sum_y + ry.out, cen)

(* int joystick_calibrate(cfg, data): the loop from iteration i on *)
RECURSIVE joystick_calibrate_loop(_, _, _, _, _, _)
joystick_calibrate_loop(adc, st, i, sum_x, sum_y, cen) ==
    IF i >= 8
    THEN [st |-> st, err |-> 0,
          center_x |-> CDiv(sum_x, 8), center_y |-> CDiv(sum_y, 8)]
    ELSE LET rx == joystick_read_axis(adc, st, "x", 0)
         IN  IF rx.err < 0
             THEN [st |-> rx.st, err |-> rx.err,
                   center_x |-> cen.center_x, center_y |-> cen.center_y]
             ELSE LET ry == joystick_read_axis(adc, rx.st, "y", 0)
                  IN  IF ry.err < 0
                      THEN [st |-> ry.st, err |-> ry.err,
                            center_x |-> cen.center_x, center_y |-> cen.center_y]
                      ELSE joystick_calibrate_loop(adc, k_sleep(ry.st, 2), i + 1,
                                                   sum_x + rx.out, sum_y + ry.out, cen)

joystick_calibrate(adc, st, d) == joystick_calibrate_loop(adc, st, 0, 0, 0, d)

(* apply_deadzone passing a value beyond the threshold through unreduced *)
apply_deadzone_snap(value, deadzone) ==
    IF value > 0
    THEN (IF value <= deadzone THEN 0 ELSE value)
    ELSE IF value < 0
    THEN (IF -value <= deadzone THEN 0 ELSE value)
    ELSE 0

(* int32_t apply_deadzone(int32_t value, uint16_t deadzone) *)
apply_deadzone(value, deadzone) ==
    IF value > 0
    THEN (IF value <= deadzone THEN 0 ELSE value - deadzone)
    ELSE IF value < 0
    THEN (IF -value <= deadzone THEN 0 ELSE value + deadzone)
    ELSE 0

(* the substitute for a zero divisor taken to be the devicetree default *)
safe_divisor_default(divisor) == IF divisor = 0 THEN 128 ELSE divisor

(* uint16_t safe_divisor = divisor == 0 ? 1 : divisor *)
safe_divisor(divisor) == IF divisor = 0 THEN 1 ELSE divisor

(* int32_t scale_value(int32_t value, uint16_t divisor) *)
scale_value(value, divisor) == CDiv(value, safe_divisor(divisor))

CLAMP(v, lo, hi) == IF v < lo THEN lo ELSE IF v > hi THEN hi ELSE v

(* the value handed to input_report_rel converted to int16_t without the  *)
(* clamp                                                                   *)
report_value_wrap(v) == ToInt16(v)

(* (int16_t)CLAMP(v, INT16_MIN, INT16_MAX) *)
report_value(v) == ToInt16(CLAMP(v, INT16_MIN, INT16_MAX))

(* joystick_report with the X report never closing the batch *)
joystick_report_x_open(dx, dy) ==
    LET have_x == dx # 0
        have_y == dy # 0
    IN  (IF have_x
         THEN <<Report("INPUT_REL_X", report_value(dx), FALSE)>>
         ELSE <<>>)
        \o
        (IF have_y
         THEN <<Report("INPUT_REL_Y", report_value(dy), TRUE)>>
         ELSE <<>>)

(* void joystick_report(dev, dx, dy): the reports it makes *)
joystick_report(dx, dy) ==
    LET have_x == dx # 0
        have_y == dy # 0
    IN  (IF have_x
         THEN <<Report("INPUT_REL_X", report_value(dx), ~have_y)>>
         ELSE <<>>)
        \o
        (IF have_y
         THEN <<Report("INPUT_REL_Y", report_value(dy), TRUE)>>
         ELSE <<>>)

(* the conditioning of one axis dividing before the deadzone is applied *)
joystick_delta_scale_first(raw, center, c, invert) ==
    LET d == apply_deadzone(scale_value(raw - center, c.scale_divisor), c.deadzone)
    IN  IF invert THEN -d ELSE d

(* the conditioning of one axis in joystick_work_cb *)
joystick_delta(raw, center, c, invert) ==
    LET d == scale_value(apply_deadzone(raw - center, c.deadzone), c.scale_divisor)
    IN  IF invert THEN -d ELSE d

-----------------------------------------------------------------------------
(* Inputs of the joystick handlers *)

JoyIntervals == {0, 10}
JoyDeadzones == {0, 50}
JoyDivisors == {0, 10}
JoyConfigs == [poll_interval_ms : JoyIntervals, deadzone : JoyDeadzones,
               scale_divisor : JoyDivisors, invert_x : BOOLEAN, invert_y : BOOLEAN]

(* errno values a failing adc_read or adc_channel_setup may return *)
AdcErrors == {-EIO, -ENODEV}

(* eight calibration samples of one axis *)
CalSeqs == {<<10, 12, 8, 14, 9, 11, 13, 7>>,
            <<500, 500, 500, 500, 500, 500, 500, 500>>,
            <<-10, -12, -8, -14, -9, -11, -13, -8>>}

(* x and y samples in the order the calibration loop reads them *)
Interleave(xs, ys) == [k \in 1..16 |-> IF k % 2 = 1 THEN xs[(k + 1) \div 2] ELSE ys[k \div 2]]

(* joystick_init returns at the first failing check or read *)
JoyInitFails ==
    {{}} \cup
    {{Call(0, op)} : op \in {"ready_x", "ready_y", "setup_x", "setup_y"}} \cup
    {{Call(k, "adc_read")} : k \in 1..16}

JoyInitEnvs ==
    {[samples |-> Interleave(xs, ys), fails |-> {}, err |-> -EIO] :
        xs \in CalSeqs, ys \in CalSeqs}
    \cup
    {[samples |-> Interleave(xs, ys), fails |-> f, err |-> e] :
        xs \in CalSeqs, ys \in CalSeqs, f \in JoyInitFails \ {{}}, e \in AdcErrors}

RawValues == {500, 600, -32768, 32767}

(* a tick with a failing read uses no sample of the failing read or after *)
JoyTickFails == {{Call(1, "adc_read")}, {Call(2, "adc_read")}}

JoyTickEnvs ==
    {[samples |-> <<rx, ry>>, fails |-> {}, err |-> -EIO] :
        rx \in RawValues, ry \in RawValues}
    \cup
    {[samples |-> <<600, 600>>, fails |-> f, err |-> e] :
        f \in JoyTickFails, e \in AdcErrors}

-----------------------------------------------------------------------------
(* Joystick handlers *)

(* the k_work_schedule call of joystick_init *)
joystick_init_sched(c) == <<poll_interval_or_default(c.poll_interval_ms)>>

(* the k_work_schedule call of joystick_work_cb: the one of the early      *)
(* return when a read failed, the one that ends the handler otherwise      *)
joystick_work_sched(c, ok) ==
    IF ~ok THEN <<poll_interval_or_default(c.poll_interval_ms)>>
    ELSE <<poll_interval_or_default(c.poll_interval_ms)>>

(* the run of joystick_init against e *)
joystick_init_run(d, e) ==
    LET d1  == [d EXCEPT !.x_calibrate = TRUE, !.y_calibrate = TRUE]
        st1 == AdcStart(d1)
        ret(r, s, cx, cy, go) ==
            [ret |-> r, st |-> s, center_x |-> cx, center_y |-> cy, ready |-> go]
    IN  IF Call(0, "ready_x") \in e.fails \/ Call(0, "ready_y") \in e.fails
        THEN ret(-ENODEV, AdcStart(d), d.center_x, d.center_y, FALSE)
        ELSE IF Call(0, "setup_x") \in e.fails
        THEN ret(e.err, st1, d.center_x, d.center_y, FALSE)
        ELSE IF Call(0, "setup_y") \in e.fails
        THEN ret(e.err, st1, d.center_x, d.center_y, FALSE)
        ELSE LET cal == joystick_calibrate(e, st1, d1)
             IN  ret(cal.err, cal.st, cal.center_x, cal.center_y, ~(cal.err < 0))

joystick_init_with(e) ==
    /\ compat = "zmk_joystick_analog"
    /\ pc = "boot"
    /\ LET r == joystick_init_run(data, e)
       IN  /\ pc' = "done"
           /\ init_ret' = r.ret
           /\ handler' = "init"
           /\ env' = e
           /\ loc' = [ret |-> r.ret]
           /\ bus_log' = r.st.log
           /\ events' = <<>>
           /\ data' = [dev |-> r.ready,
                       center_x |-> r.center_x, center_y |-> r.center_y,
                       x_calibrate |-> r.st.x_cal, y_calibrate |-> r.st.y_cal]
           /\ sched' = (IF r.ready THEN joystick_init_sched(cfg) ELSE <<>>)
           /\ work' = ScheduleAll(work, IF r.ready THEN joystick_init_sched(cfg) ELSE <<>>)
    /\ UNCHANGED <<compat, cfg, hold, memo>>

joystick_init == \E e \in JoyInitEnvs : joystick_init_with(e)

(* the run of joystick_work_cb against e: its locals and reports *)
joystick_work_run(c, d, e) ==
    LET rx == joystick_read_axis(e, AdcStart(d), "x", 0)
    IN  IF rx.err < 0
        THEN [st |-> rx.st, ok |-> FALSE, raw_x |-> rx.out, raw_y |-> 0,
              dx |-> 0, dy |-> 0, reports |-> <<>>]
        ELSE LET ry == joystick_read_axis(e, rx.st, "y", 0)
             IN  IF ry.err < 0
                 THEN [st |-> ry.st, ok |-> FALSE, raw_x |-> rx.out, raw_y |-> ry.out,
                       dx |-> 0, dy |-> 0, reports |-> <<>>]
                 ELSE LET dx == joystick_delta(rx.out, d.center_x, c, c.invert_x)
                          dy == joystick_delta(ry.out, d.center_y, c, c.invert_y)
                      IN  [st |-> ry.st, ok |-> TRUE, raw_x |-> rx.out, raw_y |-> ry.out,
                           dx |-> dx, dy |-> dy, reports |-> joystick_report(dx, dy)]

(* joystick_work_cb clearing the centers when a read fails *)
joystick_work_data_clear_on_failure(d, r) ==
    [d EXCEPT !.x_calibrate = r.st.x_cal, !.y_calibrate = r.st.y_cal,
              !.center_x = IF r.ok THEN @ ELSE 0,
              !.center_y = IF r.ok THEN @ ELSE 0]

(* joystick_work_cb writing the raw samples back as the centers *)
joystick_work_data_recenter(d, r) ==
    [d EXCEPT !.x_calibrate = r.st.x_cal, !.y_calibrate = r.st.y_cal,
              !.center_x = IF r.ok THEN r.raw_x ELSE @,
              !.center_y = IF r.ok THEN r.raw_y ELSE @]

(* dev->data after the run r of joystick_work_cb *)
joystick_work_data(d, r) ==
    [d EXCEPT !.x_calibrate = r.st.x_cal, !.y_calibrate = r.st.y_cal]

(* joystick_work_cb against the ADC answers e *)
joystick_work_cb_with(e) ==
    /\ compat = "zmk_joystick_analog"
    /\ pc = "done"
    /\ work.pending
    /\ LET r == joystick_work_run(cfg, data, e)
       IN  /\ handler' = "tick"
           /\ env' = e
           /\ loc' = [ret |-> r.ok, dx |-> r.dx, dy |-> r.dy]
           /\ bus_log' = r.st.log
           /\ events' = r.reports
           /\ data' = joystick_work_data(data, r)
           /\ sched' = joystick_work_sched(cfg, r.ok)
           /\ work' = ScheduleAll([work EXCEPT !.pending = FALSE],
                                  joystick_work_sched(cfg, r.ok))
    /\ UNCHANGED <<compat, cfg, pc, init_ret, hold>>

joystick_work_cb ==
    /\ \E e \in JoyTickEnvs : joystick_work_cb_with(e)
    /\ UNCHANGED memo

-----------------------------------------------------------------------------
(* The instance after construction: zero-initialised data, init not run.   *)

PmwData0 == [dev |-> FALSE]
NoMemo == [set |-> FALSE]
JoyData0 == [dev |-> FALSE, center_x |-> 0, center_y |-> 0,
             x_calibrate |-> FALSE, y_calibrate |-> FALSE]

Boot ==
    /\ work = [pending |-> FALSE, delay |-> 0]
    /\ pc = "boot"
    /\ init_ret = 0
    /\ handler = "none"
    /\ env = [fails |-> {}]
    /\ loc = [ret |-> 0]
    /\ bus_log = <<>>
    /\ hold = FALSE
    /\ sched = <<>>
    /\ events = <<>>
    /\ memo = NoMemo

Init ==
    /\ compat \in {"zmk_pmw3360", "zmk_joystick_analog"}
    /\ cfg \in (IF compat = "zmk_pmw3360" THEN PmwConfigs ELSE JoyConfigs)
    /\ data = (IF compat = "zmk_pmw3360" THEN PmwData0 ELSE JoyData0)
    /\ Boot

Next ==
    \/ pmw3360_init
    \/ pmw3360_work_handler
    \/ joystick_init
    \/ joystick_work_cb

Spec == Init /\ [][Next]_vars

-----------------------------------------------------------------------------
(* The resolution encoding over the whole uint16_t range: pmw3360_init of  *)
(* a sensor that identifies correctly, for every configured cpi.           *)

CpiEnvs ==
    {[regs |-> RegFile(66, 1, 0, 0, 0, 0, 0), fails |-> f, err |-> -EIO] :
        f \in {{}, {Call(4, "write")}}}

InitCpi ==
    /\ compat = "zmk_pmw3360"
    /\ cfg \in [polling_interval_ms : {4}, cpi : 0..UINT16_MAX]
    /\ data = PmwData0
    /\ Boot

NextCpi == \E e \in CpiEnvs : pmw3360_init_with(e)

SpecCpi == InitCpi /\ [][NextCpi]_vars

-----------------------------------------------------------------------------
(* Properties *)

IsPmw == compat = "zmk_pmw3360"
IsJoy == compat = "zmk_joystick_analog"
AfterInit == pc = "done" /\ handler = "init"
AfterTick == pc = "done" /\ handler = "tick"

ConfiguredInterval ==
    IF IsPmw THEN cfg.polling_interval_ms ELSE cfg.poll_interval_ms

HasReport(code) == \E i \in 1..Len(events) : events[i].code = code

(* the register writes (two-byte frames) of the last handler to register reg *)
WritesTo(reg) ==
    {i \in 1..Len(bus_log) : /\ bus_log[i].op = "spi_write"
                             /\ Len(bus_log[i].buf) = 2
                             /\ bus_log[i].buf[1] = reg + 128}

(* the register reads (one-byte address frames) of the last handler *)
ReadsOf(reg) ==
    {i \in 1..Len(bus_log) : /\ bus_log[i].op = "spi_write"
                             /\ bus_log[i].buf = <<reg>>}

(* C1: after every run of the tick handler, that run made exactly one      *)
(* k_work_schedule call and the work item is pending, whether it sampled   *)
(* motion, saw no motion or had a read fail; and from the moment init      *)
(* returned 0 the work item is pending in every state between handlers.    *)
C1_TickAlwaysReschedules ==
    /\ AfterTick => (Len(sched) = 1 /\ work.pending)
    /\ (pc = "done" /\ init_ret = 0) => work.pending

C1_Witness ==
    /\ AfterTick /\ IsPmw
    /\ env.fails # {}
    /\ Len(sched) = 1 /\ work.pending

(* C2: every delay handed to k_work_schedule is the configured interval,   *)
(* or 10 when that is 0, and is never 0.                                   *)
C2_DelayIsIntervalOrDefault ==
    \A i \in 1..Len(sched) :
        /\ sched[i] = (IF ConfiguredInterval = 0 THEN 10 ELSE ConfiguredInterval)
        /\ sched[i] # 0

(* C3: a tick reports X iff sampling succeeded with dx # 0 and Y iff       *)
(* sampling succeeded with dy # 0, at most one report per axis, and no     *)
(* report carries the value 0.                                             *)
C3_ReportsExactlyNonZeroAxes ==
    AfterTick =>
        /\ HasReport("INPUT_REL_X") <=> (loc.ret /\ loc.dx # 0)
        /\ HasReport("INPUT_REL_Y") <=> (loc.ret /\ loc.dy # 0)
        /\ Len(events) <= 2
        /\ \A i \in 1..Len(events) : events[i].value # 0

(* C4: in the reports of one tick no Y report precedes an X report; when   *)
(* dx and dy are both non-zero the reports are X with sync = false, then Y *)
(* with sync = true; and a report has sync = true iff it is the last one   *)
(* of its tick.                                                            *)
C4_XBeforeYLastCloses ==
    AfterTick =>
        /\ \A i, j \in 1..Len(events) :
               (events[i].code = "INPUT_REL_Y" /\ events[j].code = "INPUT_REL_X") => j < i
        /\ \A i \in 1..Len(events) : events[i].sync <=> (i = Len(events))
        /\ (loc.ret /\ loc.dx # 0 /\ loc.dy # 0) =>
               /\ Len(events) = 2
               /\ events[1].code = "INPUT_REL_X" /\ events[1].sync = FALSE
               /\ events[2].code = "INPUT_REL_Y" /\ events[2].sync = TRUE

C4_Witness ==
    /\ AfterTick
    /\ loc.ret /\ loc.dx # 0 /\ loc.dy # 0
    /\ Len(events) = 2
    /\ events[1].sync = FALSE /\ events[2].sync = TRUE

(* C5: pmw3360_init returns 0 or schedules the work item only when the     *)
(* sensor answers product id 0x42 and revision id 0x01; for any other pair *)
(* it returns an error, schedules nothing and no handler of the instance   *)
(* can run afterwards; a tick runs only after an init that returned 0.     *)
C5_ReadyOnlyWithIdentity ==
    IsPmw =>
        /\ AfterInit =>
              LET id_ok == /\ env.regs[PMW3360_PRODUCT_ID] = 66
                           /\ env.regs[PMW3360_REVISION_ID] = 1
              IN  /\ (init_ret = 0 \/ work.pending \/ sched # <<>>) => id_ok
                  /\ ~id_ok => /\ init_ret < 0
                               /\ ~work.pending /\ sched = <<>>
                               /\ ~ENABLED Next
        /\ AfterTick => init_ret = 0

C5_Witness ==
    /\ IsPmw /\ AfterInit
    /\ env.fails = {}
    /\ env.regs[PMW3360_PRODUCT_ID] = 66
    /\ env.regs[PMW3360_REVISION_ID] # 1
    /\ init_ret = -ENODEV
    /\ ~work.pending

(* the bring-up steps whose failure the drivers treat as fatal *)
BringupFailed ==
    IF IsPmw
    THEN env.fails \cap {Call(0, "ready"), Call(1, "write"),
                         Call(2, "write"), Call(2, "read"),
                         Call(3, "write"), Call(3, "read")} # {}
    ELSE env.fails # {}

(* C6: when the readiness check, the reset write, an identity read, a      *)
(* channel setup or a calibration read fails, the init function returns an *)
(* error, schedules nothing, and no handler of the instance can run        *)
(* afterwards; a tick runs only after an init that returned 0.             *)
C6_BringupFailureIsFatal ==
    /\ (AfterInit /\ BringupFailed) =>
           /\ init_ret < 0
           /\ ~work.pending
           /\ sched = <<>>
           /\ ~ENABLED Next
    /\ AfterTick => init_ret = 0

C6_Witness ==
    /\ IsJoy /\ AfterInit
    /\ Call(16, "adc_read") \in env.fails
    /\ init_ret < 0
    /\ ~work.pending

(* C7: once the bus is ready, the reset write and both identity reads      *)
(* succeeded and the identity matched, pmw3360_init issues the CONFIG2 and *)
(* the CONFIG1 write, returns 0 and schedules the work item once, whether  *)
(* those two writes succeed or fail.                                       *)
C7_ConfigWritesBestEffort ==
    (/\ IsPmw /\ AfterInit
     /\ env.fails \subseteq {Call(4, "write"), Call(5, "write")}
     /\ env.regs[PMW3360_PRODUCT_ID] = 66
     /\ env.regs[PMW3360_REVISION_ID] = 1)
    => /\ init_ret = 0
       /\ work.pending
       /\ Len(sched) = 1
       /\ Cardinality(WritesTo(PMW3360_CONFIG2)) = 1
       /\ Cardinality(WritesTo(PMW3360_CONFIG1)) = 1

C7_Witness ==
    /\ IsPmw /\ AfterInit
    /\ env.fails = {Call(4, "write"), Call(5, "write")}
    /\ init_ret = 0
    /\ work.pending

(* C8: the value written to the resolution register CONFIG1 is the v in    *)
(* 0..119 with (v + 1) * 100 <= clamp(cpi, 100, 12000) < (v + 2) * 100,    *)
(* for every cpi of the uint16_t range; cpi 50 writes 0, cpi 20000 writes  *)
(* 119.                                                                    *)
C8_CpiEncoding ==
    (IsPmw /\ AfterInit /\ init_ret = 0) =>
        /\ Cardinality(WritesTo(PMW3360_CONFIG1)) = 1
        /\ \A i \in WritesTo(PMW3360_CONFIG1) :
              LET v == bus_log[i].buf[2]
                  clamped == IF cfg.cpi < 100 THEN 100
                             ELSE IF cfg.cpi > 12000 THEN 12000 ELSE cfg.cpi
              IN  /\ v \in 0..119
                  /\ (v + 1) * 100 <= clamped
                  /\ clamped < (v + 2) * 100
                  /\ cfg.cpi = 50 => v = 0
                  /\ cfg.cpi = 20000 => v = 119

C8_Witness ==
    /\ IsPmw /\ AfterInit /\ init_ret = 0
    /\ cfg.cpi = 20000
    /\ \E i \in WritesTo(PMW3360_CONFIG1) : bus_log[i].buf[2] = 119

(* the status byte has bit 7 clear *)
ValidityClear(b) == (b \div 128) % 2 = 0

(* C9: a tick of the PMW3360 driver reads the MOTION register first; when  *)
(* that read fails or the byte read has bit 7 clear, the sample is "no     *)
(* motion" and no delta register is read in that tick (the MOTION read is  *)
(* the tick's only register transaction), whatever the delta registers     *)
(* hold.                                                                   *)
C9_NoDeltaReadWithoutValidity ==
    (IsPmw /\ AfterTick) =>
        /\ bus_log # <<>> /\ bus_log[1].op = "spi_write"
        /\ bus_log[1].buf = <<PMW3360_MOTION>>
        /\ (\/ Call(1, "write") \in env.fails
            \/ Call(1, "read") \in env.fails
            \/ ValidityClear(env.regs[PMW3360_MOTION]))
           => /\ loc.ret = FALSE
              /\ \A r \in {PMW3360_DELTA_X_L, PMW3360_DELTA_X_H,
                           PMW3360_DELTA_Y_L, PMW3360_DELTA_Y_H} : ReadsOf(r) = {}
              /\ Cardinality({i \in 1..Len(bus_log) : bus_log[i].op = "spi_write"}) = 1
              /\ Cardinality({i \in 1..Len(bus_log) : bus_log[i].op = "spi_read"}) <= 1

C9_Witness ==
    /\ IsPmw /\ AfterTick
    /\ env.fails = {}
    /\ env.regs[PMW3360_MOTION] = 127
    /\ env.regs[PMW3360_DELTA_X_L] = 16
    /\ loc.ret = FALSE
    /\ ReadsOf(PMW3360_DELTA_X_L) = {}

(* d is the signed 16-bit two's-complement value of h * 256 + l *)
IsSigned16Of(d, h, l) ==
    /\ d \in INT16_MIN..INT16_MAX
    /\ (d - (h * 256 + l)) % 65536 = 0

(* C10: when the five reads of a tick succeed and the validity bit is set, *)
(* the sample succeeds and dx, dy are the signed 16-bit values of          *)
(* high * 256 + low of their register pairs; X = 0x10, 0x00 gives 16 and   *)
(* Y = 0xF0, 0xFF gives -16.                                               *)
C10_DeltaIsSigned16 ==
    (/\ IsPmw /\ AfterTick
     /\ env.fails = {}
     /\ ~ValidityClear(env.regs[PMW3360_MOTION]))
    => /\ loc.ret
       /\ IsSigned16Of(loc.dx, env.regs[PMW3360_DELTA_X_H], env.regs[PMW3360_DELTA_X_L])
       /\ IsSigned16Of(loc.dy, env.regs[PMW3360_DELTA_Y_H], env.regs[PMW3360_DELTA_Y_L])
       /\ (env.regs[PMW3360_DELTA_X_L] = 16 /\ env.regs[PMW3360_DELTA_X_H] = 0)
              => loc.dx = 16
       /\ (env.regs[PMW3360_DELTA_Y_L] = 240 /\ env.regs[PMW3360_DELTA_Y_H] = 255)
              => loc.dy = -16

C10_Witness ==
    /\ IsPmw /\ AfterTick
    /\ env.fails = {}
    /\ env.regs[PMW3360_MOTION] = 128
    /\ env.regs[PMW3360_DELTA_X_L] = 16 /\ env.regs[PMW3360_DELTA_X_H] = 0
    /\ env.regs[PMW3360_DELTA_Y_L] = 240 /\ env.regs[PMW3360_DELTA_Y_H] = 255
    /\ loc.dx = 16 /\ loc.dy = -16

-----------------------------------------------------------------------------
(* Single calls of the drivers' functions.  The arguments of the call are  *)
(* the env of the initial state; the action makes the call and keeps what  *)
(* it returned in loc (and, for the register functions, what it did on the *)
(* bus in bus_log and hold).                                               *)

MaxAbsValue == 12
MaxDeadzone == 6
MaxDivisor == 5

(* centered values: raw - center of two int16_t lies in -65535..65535 *)
CenteredValues ==
    (-MaxAbsValue..MaxAbsValue) \cup {-65535, -65534, -32768, 32767, 65534, 65535}

DeadzoneArgs == (0..MaxDeadzone) \cup {50, 65534, 65535}

DivisorArgs == (0..MaxDivisor) \cup {10, 128, 65535}

DeadzoneCalls ==
    {[fn |-> "apply_deadzone", value |-> v, deadzone |-> d] :
        v \in CenteredValues, d \in DeadzoneArgs}

ScaleCalls ==
    {[fn |-> "scale_value", value |-> v, divisor |-> d] :
        v \in CenteredValues, d \in DivisorArgs}

InitCall(calls) ==
    /\ compat = "none"
    /\ cfg = [none |-> 0]
    /\ data = [dev |-> FALSE]
    /\ work = [pending |-> FALSE, delay |-> 0]
    /\ pc = "call"
    /\ init_ret = 0
    /\ handler = "none"
    /\ env \in calls
    /\ loc = [ret |-> 0]
    /\ bus_log = <<>>
    /\ hold = FALSE
    /\ sched = <<>>
    /\ events = <<>>
    /\ memo = NoMemo

Returned(fn) == pc = "returned" /\ handler = fn

call_apply_deadzone ==
    /\ pc = "call"
    /\ env.fn = "apply_deadzone"
    /\ pc' = "returned"
    /\ handler' = "apply_deadzone"
    /\ loc' = [ret |-> apply_deadzone(env.value, env.deadzone)]
    /\ UNCHANGED <<compat, cfg, data, work, init_ret, env, bus_log, hold, sched, events, memo>>

call_scale_value ==
    /\ pc = "call"
    /\ env.fn = "scale_value"
    /\ pc' = "returned"
    /\ handler' = "scale_value"
    /\ loc' = [ret |-> scale_value(env.value, env.divisor),
               safe_divisor |-> safe_divisor(env.divisor)]
    /\ UNCHANGED <<compat, cfg, data, work, init_ret, env, bus_log, hold, sched, events, memo>>

InitCond == InitCall(DeadzoneCalls \cup ScaleCalls)

NextCond ==
    \/ call_apply_deadzone
    \/ call_scale_value

SpecCond == InitCond /\ [][NextCond]_vars

-----------------------------------------------------------------------------
(* Properties of the conditioning functions *)

Abs(v) == IF v < 0 THEN -v ELSE v
Sign(v) == IF v < 0 THEN -1 ELSE IF v > 0 THEN 1 ELSE 0
Max(a, b) == IF a >= b THEN a ELSE b

(* q is a / b (b > 0) rounded toward zero *)
IsTruncQuotient(q, a, b) ==
    /\ (q = 0 \/ Sign(q) = Sign(a))
    /\ Abs(q) * b <= Abs(a)
    /\ Abs(a) < (Abs(q) + 1) * b

(* C11: for every centered value v and threshold d >= 0 the result of      *)
(* apply_deadzone(v, d) is 0 or has the sign of v, and its absolute value  *)
(* is max(0, |v| - d).                                                     *)
C11_DeadzoneSignAndMagnitude ==
    Returned("apply_deadzone") =>
        /\ (loc.ret = 0 \/ Sign(loc.ret) = Sign(env.value))
        /\ Abs(loc.ret) = Max(0, Abs(env.value) - env.deadzone)

C11_Witness ==
    /\ Returned("apply_deadzone")
    /\ env.value = -7 /\ env.deadzone = 6
    /\ loc.ret = -1

(* C12: the divisor scale_value divides by is never 0; with a configured   *)
(* divisor of 0 or of 1 the result is the value itself, and with any       *)
(* non-zero divisor it is value / divisor rounded toward zero.             *)
C12_ScaleDivisorNeverZero ==
    Returned("scale_value") =>
        /\ loc.safe_divisor # 0
        /\ env.divisor \in {0, 1} => loc.ret = env.value
        /\ env.divisor # 0 => /\ loc.safe_divisor = env.divisor
                              /\ IsTruncQuotient(loc.ret, env.value, env.divisor)

C12_Witness ==
    /\ Returned("scale_value")
    /\ env.divisor = 0 /\ env.value = -7
    /\ loc.ret = -7

-----------------------------------------------------------------------------
(* Properties of the calibration *)

(* the sum of the samples the calibration loop read for axis "x" (the odd  *)
(* conversions) or "y" (the even ones), from iteration i on                *)
RECURSIVE CalSum(_, _, _)
CalSum(samples, axis, i) ==
    IF i > 8 THEN 0
    ELSE samples[IF axis = "x" THEN 2 * i - 1 ELSE 2 * i] + CalSum(samples, axis, i + 1)

AdcReads == {i \in 1..Len(bus_log) : bus_log[i].op = "adc_read"}

(* C13: when the 16 reads of the calibration succeed, each axis center is  *)
(* the sum of the 8 samples of that axis divided by 8 and rounded toward   *)
(* zero; the samples 10, 12, 8, 14, 9, 11, 13, 7 give the center 10.       *)
C13_CenterIsTruncatedMean ==
    (IsJoy /\ AfterInit /\ env.fails = {}) =>
        /\ init_ret = 0
        /\ Cardinality(AdcReads) = 16
        /\ IsTruncQuotient(data.center_x, CalSum(env.samples, "x", 1), 8)
        /\ IsTruncQuotient(data.center_y, CalSum(env.samples, "y", 1), 8)
        /\ [k \in 1..8 |-> env.samples[2 * k - 1]] = <<10, 12, 8, 14, 9, 11, 13, 7>>
              => data.center_x = 10
        /\ [k \in 1..8 |-> env.samples[2 * k]] = <<10, 12, 8, 14, 9, 11, 13, 7>>
              => data.center_y = 10

C13_Witness ==
    /\ IsJoy /\ AfterInit /\ env.fails = {}
    /\ CalSum(env.samples, "x", 1) = 84
    /\ CalSum(env.samples, "y", 1) = -85
    /\ data.center_x = 10
    /\ data.center_y = -10

(* C14: when the k-th read of the calibration fails, the failed read is    *)
(* the last call the init function makes (k reads in all), the init        *)
(* function returns the error of that read, and center_x and center_y      *)
(* keep the values they had before calibration, whatever was summed.       *)
C14_CalibrationAllOrNothing ==
    \A k \in 1..16 :
        (IsJoy /\ AfterInit /\ Call(k, "adc_read") \in env.fails) =>
            /\ init_ret = env.err
            /\ Cardinality(AdcReads) = k
            /\ bus_log[Len(bus_log)] =
                   LogEntry("adc_read", <<IF k % 2 = 1 THEN "x" ELSE "y">>, env.err)
            /\ data.center_x = JoyData0.center_x
            /\ data.center_y = JoyData0.center_y

C14_Witness ==
    /\ IsJoy /\ AfterInit
    /\ Call(16, "adc_read") \in env.fails
    /\ CalSum(env.samples, "x", 1) = 84
    /\ env.err = -ENODEV
    /\ init_ret = -ENODEV
    /\ data.center_x = 0 /\ data.center_y = 0
    /\ Cardinality(AdcReads) = 16

-----------------------------------------------------------------------------
(* Properties of the joystick tick *)

TickOk == IsJoy /\ AfterTick /\ loc.ret

(* v limited to the signed 16-bit range *)
IsClampOf(r, v) ==
    /\ r \in INT16_MIN..INT16_MAX
    /\ (v \in INT16_MIN..INT16_MAX) => r = v
    /\ v > INT16_MAX => r = INT16_MAX
    /\ v < INT16_MIN => r = INT16_MIN

(* the conditioned delta of the axis an event reports *)
DeltaOf(code) == IF code = "INPUT_REL_X" THEN loc.dx ELSE loc.dy

(* C15: every value the joystick tick hands to input_report_rel lies in    *)
(* -32768..32767 and is the conditioned delta of its axis limited to that  *)
(* range: a delta above 32767 is reported as 32767, one below -32768 as    *)
(* -32768, never as the wrapped value.                                     *)
C15_ReportedValueIsClamped ==
    (IsJoy /\ AfterTick) =>
        \A i \in 1..Len(events) : IsClampOf(events[i].value, DeltaOf(events[i].code))

C15_Witness ==
    /\ TickOk
    /\ loc.dx > INT16_MAX
    /\ loc.dy < INT16_MIN
    /\ Len(events) = 2
    /\ events[1].value = INT16_MAX
    /\ events[2].value = INT16_MIN

(* raw - center, then the deadzone, then the division rounded toward zero, *)
(* then the negation, each stage stated on its own                         *)
IsConditioned(d, raw, center, invert) ==
    LET centered == raw - center
        dead == IF Abs(centered) <= cfg.deadzone
                THEN 0
                ELSE Sign(centered) * (Abs(centered) - cfg.deadzone)
        scaled == IF invert THEN -d ELSE d
    IN  IsTruncQuotient(scaled, dead, Max(cfg.scale_divisor, 1))

(* C16: a successful joystick tick computes each axis as raw - center,     *)
(* then the deadzone, then the division, then the negation, and reports    *)
(* the clamped result of the non-zero axes; with centers (500, 500),       *)
(* deadzone 50, divisor 10, no inversion and raw (600, 500) it reports     *)
(* exactly one event, X with value 5.                                      *)
C16_ConditioningOrder ==
    TickOk =>
        /\ IsConditioned(loc.dx, env.samples[1], data.center_x, cfg.invert_x)
        /\ IsConditioned(loc.dy, env.samples[2], data.center_y, cfg.invert_y)
        /\ Len(events) = (IF loc.dx # 0 THEN 1 ELSE 0) + (IF loc.dy # 0 THEN 1 ELSE 0)
        /\ \A i \in 1..Len(events) :
               /\ DeltaOf(events[i].code) # 0
               /\ IsClampOf(events[i].value, DeltaOf(events[i].code))
        /\ ( /\ data.center_x = 500 /\ data.center_y = 500
             /\ cfg.deadzone = 50 /\ cfg.scale_divisor = 10
             /\ ~cfg.invert_x /\ ~cfg.invert_y
             /\ env.samples = <<600, 500>> )
           => events = <<Report("INPUT_REL_X", 5, TRUE)>>

C16_Witness ==
    /\ TickOk
    /\ data.center_x = 500 /\ data.center_y = 500
    /\ cfg.deadzone = 50 /\ cfg.scale_divisor = 10
    /\ ~cfg.invert_x /\ ~cfg.invert_y
    /\ env.samples = <<600, 500>>
    /\ loc.dx = 5 /\ loc.dy = 0
    /\ Len(events) = 1 /\ events[1].value = 5

-----------------------------------------------------------------------------
(* Repeated joystick ticks: a calibrated instance whose ticks may remember *)
(* one successful tick (its raw input, its deltas, its reports) and count  *)
(* the ticks that ran after it.                                            *)

MaxTicksSince == 2

IdemInitEnvs ==
    {[samples |-> Interleave(xs, <<500, 500, 500, 500, 500, 500, 500, 500>>),
      fails |-> {}, err |-> -EIO] : xs \in CalSeqs}

IdemTickEnvs ==
    {[samples |-> <<rx, ry>>, fails |-> {}, err |-> -EIO] :
        rx \in {500, 600}, ry \in {500, 600}}
    \cup
    {[samples |-> <<600, 600>>, fails |-> f, err |-> -EIO] : f \in JoyTickFails}

CountUp(n) == IF n < MaxTicksSince THEN n + 1 ELSE n

(* the history after a tick with answers e and run r *)
NextMemo(m, e, r) ==
    IF m.set
    THEN {[m EXCEPT !.ok_since = IF r.ok THEN CountUp(@) ELSE @,
                    !.failed_since = IF r.ok THEN @ ELSE CountUp(@)]}
    ELSE IF r.ok
         THEN {m, [set |-> TRUE, samples |-> e.samples, dx |-> r.dx, dy |-> r.dy,
                   events |-> r.reports, ok_since |-> 0, failed_since |-> 0]}
         ELSE {m}

InitIdem ==
    /\ compat = "zmk_joystick_analog"
    /\ cfg \in JoyConfigs
    /\ data = JoyData0
    /\ Boot

joystick_init_idem == \E e \in IdemInitEnvs : joystick_init_with(e)

joystick_work_cb_idem ==
    \E e \in IdemTickEnvs :
        /\ joystick_work_cb_with(e)
        /\ memo' \in NextMemo(memo, e, joystick_work_run(cfg, data, e))

NextIdem ==
    \/ joystick_init_idem
    \/ joystick_work_cb_idem

SpecIdem == InitIdem /\ [][NextIdem]_vars

(* C17: a successful joystick tick that reads the raw (x, y) an earlier    *)
(* successful tick of the same calibrated instance read computes the same  *)
(* dx and dy and makes the same reports as that tick, however many         *)
(* successful or failed ticks ran in between.                              *)
C17_SameInputSameOutput ==
    (TickOk /\ memo.set /\ memo.samples = env.samples) =>
        /\ loc.dx = memo.dx
        /\ loc.dy = memo.dy
        /\ events = memo.events

C17_Witness ==
    /\ TickOk /\ memo.set /\ memo.samples = env.samples
    /\ memo.ok_since = MaxTicksSince
    /\ memo.failed_since > 0
    /\ loc.dx # 0
    /\ events = memo.events

-----------------------------------------------------------------------------
(* Single register transactions: one call of pmw3360_reg_read or of        *)
(* pmw3360_reg_write, for register arguments with and without bit 7 set,   *)
(* against a bus whose write or read may fail.                             *)

RegArgs == {PMW3360_PRODUCT_ID, PMW3360_MOTION, PMW3360_POWER_UP_RESET, 127, 130, UINT8_MAX}
ByteArgs == {0, 90, UINT8_MAX}
SensorBytes == {0, 66, UINT8_MAX}

RegReadCalls ==
    {[fn |-> "pmw3360_reg_read", reg |-> r, val |-> v,
      regs |-> [a \in 0..127 |-> b], fails |-> f, err |-> e] :
        r \in RegArgs, v \in {0, 170}, b \in SensorBytes,
        f \in {{}, {Call(1, "write")}, {Call(1, "read")}}, e \in SpiErrors}

RegWriteCalls ==
    {[fn |-> "pmw3360_reg_write", reg |-> r, val |-> v,
      regs |-> [a \in 0..127 |-> 0], fails |-> f, err |-> e] :
        r \in RegArgs, v \in ByteArgs,
        f \in {{}, {Call(1, "write")}}, e \in SpiErrors}

call_reg_read ==
    /\ pc = "call"
    /\ env.fn = "pmw3360_reg_read"
    /\ LET r == pmw3360_reg_read(env, BusStart(hold), env.reg, env.val)
       IN  /\ loc' = [err |-> r.err, val |-> r.val]
           /\ bus_log' = r.st.log
           /\ hold' = r.st.hold
    /\ pc' = "returned"
    /\ handler' = "pmw3360_reg_read"
    /\ UNCHANGED <<compat, cfg, data, work, init_ret, env, sched, events, memo>>

call_reg_write ==
    /\ pc = "call"
    /\ env.fn = "pmw3360_reg_write"
    /\ LET r == pmw3360_reg_write(env, BusStart(hold), env.reg, env.val)
       IN  /\ loc' = [err |-> r.err]
           /\ bus_log' = r.st.log
           /\ hold' = r.st.hold
    /\ pc' = "returned"
    /\ handler' = "pmw3360_reg_write"
    /\ UNCHANGED <<compat, cfg, data, work, init_ret, env, sched, events, memo>>

InitReg == InitCall(RegReadCalls \cup RegWriteCalls)

NextReg ==
    \/ call_reg_read
    \/ call_reg_write

SpecReg == InitReg /\ [][NextReg]_vars

(* the result of the transport call op of the transaction *)
Transport(op) == IF Call(1, op) \in env.fails THEN env.err ELSE 0

(* C18: when the address write of pmw3360_reg_read fails, a guard wait     *)
(* runs before the hold is released, the call returns the error of the     *)
(* write and *val is left as it was.                                       *)
C18_WaitsOnAddressWriteFailure ==
    (Returned("pmw3360_reg_read") /\ Transport("write") # 0) =>
        /\ \E i, j \in 1..Len(bus_log) :
               /\ i < j
               /\ bus_log[i].op = "k_busy_wait"
               /\ bus_log[j].op = "spi_release"
        /\ loc.err = env.err
        /\ loc.val = env.val

(* C19: a pmw3360_reg_read whose address write succeeds makes exactly      *)
(* these calls in this order: the held write of the one byte reg with bit  *)
(* 7 cleared, a wait of 160, the held read of one byte, the release, a     *)
(* wait of 19, whether the read succeeds or not; it returns the result of  *)
(* the read, and *val is the byte read when the read succeeded and is left *)
(* as it was otherwise.                                                    *)
C19_ReadTransactionOrder ==
    (Returned("pmw3360_reg_read") /\ Transport("write") = 0) =>
        /\ bus_log = << LogEntry("spi_write", <<env.reg % 128>>, 0),
                        LogEntry("k_busy_wait", <<>>, 160),
                        LogEntry("spi_read", <<>>, Transport("read")),
                        LogEntry("spi_release", <<>>, 0),
                        LogEntry("k_busy_wait", <<>>, 19) >>
        /\ hold = FALSE
        /\ loc.err = Transport("read")
        /\ loc.val = IF Transport("read") = 0 THEN env.regs[env.reg % 128] ELSE env.val

C19_Witness ==
    /\ Returned("pmw3360_reg_read")
    /\ Transport("write") = 0 /\ Transport("read") # 0
    /\ env.reg = 130
    /\ env.val = 170 /\ env.regs[2] = 66
    /\ loc.val = 170
    /\ Len(bus_log) = 5 /\ bus_log[4].op = "spi_release"

(* C20: every pmw3360_reg_write makes exactly these calls in this order,   *)
(* whether the write succeeds or not: the held write of the two bytes reg  *)
(* with bit 7 set and val, a wait of 35, the release, a wait of 145; it    *)
(* returns the result of the write.                                        *)
C20_WriteTransactionOrder ==
    Returned("pmw3360_reg_write") =>
        /\ bus_log = << LogEntry("spi_write", <<(env.reg % 128) + 128, env.val>>,
                                 Transport("write")),
                        LogEntry("k_busy_wait", <<>>, 35),
                        LogEntry("spi_release", <<>>, 0),
                        LogEntry("k_busy_wait", <<>>, 145) >>
        /\ hold = FALSE
        /\ loc.err = Transport("write")

C20_Witness ==
    /\ Returned("pmw3360_reg_write")
    /\ Transport("write") # 0
    /\ env.reg = PMW3360_POWER_UP_RESET /\ env.val = 90
    /\ loc.err = env.err
    /\ Len(bus_log) = 4
    /\ bus_log[1].buf = <<186, 90>>
    /\ bus_log[2].n = 35 /\ bus_log[4].n = 145

-----------------------------------------------------------------------------
(* Properties of the delta reads *)

IsAddressFrame(entry) == entry.op = "spi_write" /\ Len(entry.buf) = 1

(* the registers the last handler started to read, in call order *)
ReadOrder ==
    LET frames == SelectSeq(bus_log, IsAddressFrame)
    IN  [i \in 1..Len(frames) |-> frames[i].buf[1]]

SampleOrder == <<PMW3360_MOTION, PMW3360_DELTA_X_L, PMW3360_DELTA_X_H,
                 PMW3360_DELTA_Y_L, PMW3360_DELTA_Y_H>>

TransactionFails(k) == Call(k, "write") \in env.fails \/ Call(k, "read") \in env.fails

(* C21: in a PMW3360 tick whose MOTION read succeeds with bit 7 set, the   *)
(* delta registers are read in the order X_L, X_H, Y_L, Y_H; when one of   *)
(* these reads fails it is the last register read of the tick, the sample  *)
(* is "no motion", dx and dy of the handler stay 0 and the tick reports    *)
(* nothing.                                                                *)
C21_DeltaReadOrderAndAbort ==
    (/\ IsPmw /\ AfterTick
     /\ ~TransactionFails(1)
     /\ ~ValidityClear(env.regs[PMW3360_MOTION]))
    => /\ env.fails = {} => ReadOrder = SampleOrder
       /\ \A k \in 2..5 :
              TransactionFails(k) =>
                  /\ ReadOrder = SubSeq(SampleOrder, 1, k)
                  /\ loc.ret = FALSE
                  /\ loc.dx = 0 /\ loc.dy = 0
                  /\ events = <<>>

C21_Witness ==
    /\ IsPmw /\ AfterTick
    /\ env.fails = {Call(3, "read")}
    /\ env.regs[PMW3360_MOTION] = 128
    /\ env.regs[PMW3360_DELTA_X_L] = 16
    /\ ReadOrder = <<PMW3360_MOTION, PMW3360_DELTA_X_L, PMW3360_DELTA_X_H>>
    /\ loc.ret = FALSE /\ loc.dx = 0 /\ loc.dy = 0
    /\ events = <<>>

-----------------------------------------------------------------------------
(* Properties of the bus hold *)

Ops(i, j) == {bus_log[k].op : k \in i..j}

(* C22: the chip select is not held in any state between handlers, and     *)
(* within every handler each held write is followed by a release before    *)
(* the next held write, and each held read lies between the held write of  *)
(* its transaction and that release: no register transaction starts while  *)
(* the hold of an earlier one is asserted, on the success, write-failure   *)
(* and read-failure paths alike.                                           *)
C22_HoldReleasedAfterTransaction ==
    /\ hold = FALSE
    /\ \A i \in 1..Len(bus_log) :
           bus_log[i].op = "spi_write" =>
               \E j \in (i + 1)..Len(bus_log) :
                   /\ bus_log[j].op = "spi_release"
                   /\ "spi_write" \notin Ops(i + 1, j - 1)
    /\ \A i \in 1..Len(bus_log) :
           bus_log[i].op = "spi_read" =>
               \E j \in 1..(i - 1) :
                   /\ bus_log[j].op = "spi_write"
                   /\ Ops(j + 1, i - 1) \cap {"spi_release", "spi_read", "spi_write"} = {}

C22_Witness ==
    /\ IsPmw /\ AfterTick
    /\ env.fails = {Call(3, "write")}
    /\ env.regs[PMW3360_MOTION] = 128
    /\ Cardinality({i \in 1..Len(bus_log) : bus_log[i].op = "spi_write"}) = 3
    /\ Cardinality({i \in 1..Len(bus_log) : bus_log[i].op = "spi_release"}) = 3
    /\ bus_log[Len(bus_log)].op = "spi_release"
    /\ hold = FALSE

-----------------------------------------------------------------------------
(* Frame of the joystick tick *)

(* the axes the last handler read, in call order *)
AxesRead ==
    LET reads == SelectSeq(bus_log, LAMBDA entry : entry.op = "adc_read")
    IN  [i \in 1..Len(reads) |-> reads[i].buf[1]]

JoyTickReadsInOrder ==
    (IsJoy /\ AfterTick) =>
        /\ AxesRead = IF Call(1, "adc_read") \in env.fails THEN <<"x">> ELSE <<"x", "y">>
        /\ (Call(1, "adc_read") \in env.fails \/ Call(2, "adc_read") \in env.fails)
               => (events = <<>> /\ loc.ret = FALSE)

JoyTickKeepsCalibration ==
    (IsJoy /\ handler' = "tick") =>
        /\ data'.center_x = data.center_x
        /\ data'.center_y = data.center_y
        /\ cfg' = cfg

(* C23: every tick of the joystick driver leaves center_x, center_y and    *)
(* the configuration (deadzone, divisor, invert flags) as they were,       *)
(* whether its reads succeed or the X read or the Y read fails; a tick     *)
(* with a failed read reports nothing; a tick reads X first, then Y, and   *)
(* does not read Y when the X read fails.                                  *)
C23_TickKeepsCalibrationAndConfig ==
    /\ []JoyTickReadsInOrder
    /\ [][JoyTickKeepsCalibration]_vars

C23_Witness ==
    /\ IsJoy /\ AfterTick
    /\ Call(1, "adc_read") \in env.fails
    /\ data.center_x = 10 /\ data.center_y = -10
    /\ cfg.deadzone = 50 /\ cfg.invert_x
    /\ AxesRead = <<"x">>
    /\ events = <<>>

====
